---- MODULE Spec2Model ----
(***************************************************************************)
(* hd-idle for Windows (src/hd-idle.cpp): the command line builds the      *)
(* idle-time list it_root, then main's endless loop probes the drives      *)
(* \\.\PhysicalDrive0, 1, ... once per round, keeps one DISKSTATS record    *)
(* per drive in ds_root and sends STANDBY IMMEDIATE to a drive whose       *)
(* read/write counters did not move for idle_time seconds.                 *)
(*                                                                         *)
(* One action is one pass through the body of the inner for loop for one   *)
(* drive (the program is single threaded), or one option of the command    *)
(* line, or the sleep that ends a round.  What the operating system        *)
(* answers (open, power state, drive type, counters, malloc) is chosen     *)
(* with \E in the action that asks.                                        *)
(***************************************************************************)
EXTENDS Integers, Sequences, FiniteSets, TLC

(***************************************************************************)
(* Bounds of the model.                                                    *)
(***************************************************************************)
\* options on the command line
MaxOpts == 2
\* the clock (seconds since the program started) stops the model here
MaxTime == 3
\* the same two bounds for the specification of the policy table
PolMaxOpts == 3
PolMaxTime == 2
\* the counters IOCTL_DISK_PERFORMANCE reports are drawn from 0..MaxCount
MaxCount == 1
\* the run that follows the device handles: options, and the last time a round
\* starts
HandMaxOpts == 1
HandMaxTime == 2
\* the run on a machine with two drives: options, and the last time a round starts
PairMaxOpts == 1
PairMaxTime == 2

(***************************************************************************)
(* Program constants.                                                      *)
(***************************************************************************)
DEFAULT_IDLE_TIME == 60
\* for (int i = 0; i < 255; ++i)
MAX_DRIVE_INDEX == 255
\* min_idle_time = 1 << 30
MIN_IDLE_START == 2^30
\* if (sleep_time > 10) sleep_time = 10
MAX_SLEEP_TIME == 10
\* #define sleep(x) Sleep((x)*1000): Sleep takes a DWORD of milliseconds, and
\* 2^32 milliseconds are 4294967 whole seconds
DWORD_SECONDS == 4294967

\* GetDriveTypeA results
DRIVE_UNKNOWN == 0
DRIVE_NO_ROOT_DIR == 1
DRIVE_REMOVABLE == 2
DRIVE_FIXED == 3
DRIVE_REMOTE == 4
DRIVE_CDROM == 5
DRIVE_RAMDISK == 6
DriveTypes == DRIVE_UNKNOWN .. DRIVE_RAMDISK

\* GetLastError codes the code looks at
ERROR_INVALID_FUNCTION == 1
ERROR_FILE_NOT_FOUND == 2
ERROR_ACCESS_DENIED == 5
\* what CreateFile can fail with; 31 stands for the codes the switch has no
\* case for
OpenErrors == {ERROR_FILE_NOT_FOUND, ERROR_ACCESS_DENIED} \cup {31}
\* what IOCTL_DISK_PERFORMANCE can fail with: "invalid function" or another
ReadErrors == {ERROR_INVALID_FUNCTION} \cup {31}

VARIABLES
    ndrives,        \* the machine has PhysicalDrive0 .. PhysicalDrive(ndrives-1)
    pc,             \* "opts" (getopt loop), "loop" (inner for), "sleep", "exit"
    nopts,          \* options consumed so far (not read once getopt is done)
    it_root,        \* IDLE_TIME list, head first; name is <<>> (NULL) or <<s>>;
                    \* opt (history): the entry is the opt-th that -a added
    it,             \* main's IDLE_TIME *it: position in it_root
    sleep_time,
    ds_root,        \* DISKSTATS list, head first
    i,              \* index of the inner for loop
    clock,          \* what time(NULL) returns
    tried_diskperf, \* static bool tried_diskperf
    exit_code,
    have_idle,      \* (history) an -i option was given
    obs,            \* what the last pass through the loop body saw (history)
    issued,         \* drives ata_set_standby_mode was called for in that pass
    hist,           \* per drive name: history since last_io was last set
    ever_fixed,     \* drive names GetDriveTypeA ever reported DRIVE_FIXED for
    calls,          \* what that pass called, in order (history)
    leaked,         \* handles that pass opened and did not close
    tried,          \* (history) the indexes this round called CreateFile for, in
                    \* order, and whether the device was opened
    stops           \* spindown_disk calls: the name given and how it ended

vars == <<ndrives, pc, nopts, it_root, it, sleep_time, ds_root, i, clock,
          tried_diskperf, exit_code, have_idle, obs, issued, hist,
          ever_fixed, calls, leaked, tried, stops>>

(***************************************************************************)
(* Data.                                                                   *)
(***************************************************************************)
\* sprintf(tmp.name, "\\\\.\\PhysicalDrive%d", i)
DriveName(k) == "\\\\.\\PhysicalDrive" \o ToString(k)

Drives == 0 .. (ndrives - 1)
DriveNames == { DriveName(k) : k \in Drives }

\* memset(&tmp, 0x00, sizeof(tmp))
ZeroStats ==
    [name |-> "", idle_time |-> 0, last_io |-> 0, spindown |-> 0, spinup |-> 0,
     spun_down |-> FALSE, reads |-> 0, writes |-> 0]

\* tmp after sprintf and after tmp.reads / tmp.writes were assigned
TmpStats(name, reads, writes) ==
    [ZeroStats EXCEPT !.name = name, !.reads = reads, !.writes = writes]

\* the arguments -a is given: the drives' names and one that matches no drive
NameArgs == DriveNames \cup {"sdb"}

\* the arguments -i is given, as the characters of optarg
IdleArgs ==
    { <<"0">>, <<"2">>, <<"3">>, <<"x">>, <<" ", "3", "s">>, <<"-", "2", "0">> }

Digits == <<"0", "1", "2", "3", "4", "5", "6", "7", "8", "9">>
IsDigit(c) == \E d \in 1..10 : Digits[d] = c
DigitVal(c) == (CHOOSE d \in 1..10 : Digits[d] = c) - 1

RECURSIVE AtoiDigits(_, _)
AtoiDigits(s, acc) ==
    IF s = <<>> \/ ~IsDigit(Head(s)) THEN acc
    ELSE AtoiDigits(Tail(s), 10 * acc + DigitVal(Head(s)))

RECURSIVE SkipSpace(_)
SkipSpace(s) == IF s # <<>> /\ Head(s) = " " THEN SkipSpace(Tail(s)) ELSE s

\* atoi(optarg): white space, an optional sign, then digits up to the first
\* character that is no digit; 0 when there is no digit
atoi(s) ==
    LET t == SkipSpace(s)
    IN  IF t # <<>> /\ Head(t) = "-" THEN 0 - AtoiDigits(Tail(t), 0)
        ELSE IF t # <<>> /\ Head(t) = "+" THEN AtoiDigits(Tail(t), 0)
        ELSE AtoiDigits(t, 0)

\* disk_name(path): returns path
disk_name(path) == path

\* strcmp(a, b) == 0
StrEq(a, b) == a = b

(***************************************************************************)
(* Startup: default entry and command line.                                *)
(***************************************************************************)
\* lines 203-210: the default idle-time entry
DefaultEntry == [name |-> <<>>, idle_time |-> DEFAULT_IDLE_TIME, opt |-> 0]

\* faulty variant: the new entry is added at the tail, behind the default entry
AddEntryAtTail(root, arg, n) ==
    root \o <<[name |-> <<disk_name(arg)>>, idle_time |-> DEFAULT_IDLE_TIME,
               opt |-> n]>>

\* lines 223-230: case 'a' prepends a new entry
AddEntry(root, arg, n) ==
    <<[name |-> <<disk_name(arg)>>, idle_time |-> DEFAULT_IDLE_TIME,
       opt |-> n]>> \o root

\* line 235: case 'i' sets the idle time of the entry it points to
SetIdle(root, pos, arg) == [root EXCEPT ![pos].idle_time = atoi(arg)]

\* faulty variant: entries with an idle time of 0 are not skipped
RECURSIVE MinIdleCountingZero(_, _)
MinIdleCountingZero(root, m) ==
    IF root = <<>> THEN m
    ELSE MinIdleCountingZero(Tail(root),
                             IF Head(root).idle_time < m
                             THEN Head(root).idle_time ELSE m)

\* lines 262-267
RECURSIVE MinIdle(_, _)
MinIdle(root, m) ==
    IF root = <<>> THEN m
    ELSE MinIdle(Tail(root),
                 IF Head(root).idle_time # 0 /\ Head(root).idle_time < m
                 THEN Head(root).idle_time ELSE m)

\* lines 268-271; C's / truncates toward zero
CDiv(a, b) == IF a >= 0 THEN a \div b ELSE 0 - ((0 - a) \div b)
SleepTime(root) ==
    LET s0 == CDiv(MinIdle(root, MIN_IDLE_START), 10)
        s1 == IF s0 = 0 THEN 1 ELSE s0
    IN  IF s1 > MAX_SLEEP_TIME THEN MAX_SLEEP_TIME ELSE s1

\* what a pass through the loop body saw: the drive, whether CreateFile
\* succeeded, whether GetDevicePowerState said on, whether GetDriveTypeA said
\* DRIVE_FIXED, whether the counters were read, the counters, the time, and
\* the drive's record as it was before the pass (had: there was one)
NoObs ==
    [name |-> "", opened |-> FALSE, on |-> FALSE, fixed |-> FALSE,
     read_ok |-> FALSE, reads |-> 0, writes |-> 0, now |-> 0,
     had |-> FALSE, pre |-> ZeroStats]

\* history of one drive since its last_io was last set: standby commands sent,
\* whether every round since then took the drive through the branch for
\* unchanged counters, the time of the first round that ended with
\* now - last_io >= idle_time > 0 (-1: none yet), and whether the last
\* ata_set_standby_mode returned false
NoHist == [cmds |-> 0, clean |-> TRUE, first_due |-> -1, failed |-> FALSE]

\* the state when main is entered, on a machine with n drives
InitM(nd) ==
    /\ ndrives = nd
    /\ pc = "opts"
    /\ nopts = 0
    /\ it_root = <<DefaultEntry>>
    /\ it = 1
    /\ sleep_time = 0
    /\ ds_root = <<>>
    /\ i = 0
    /\ clock = 0
    /\ tried_diskperf = FALSE
    /\ exit_code = 0
    /\ have_idle = FALSE
    /\ obs = NoObs
    /\ issued = <<>>
    /\ hist = [n \in DriveNames |-> NoHist]
    /\ ever_fixed = {}
    /\ calls = <<>>
    /\ leaked = 0
    /\ tried = <<>>
    /\ stops = <<>>

Init == InitM(1)

loopVars == <<ndrives, sleep_time, ds_root, i, clock, tried_diskperf, obs, issued,
              hist, ever_fixed, calls, leaked, tried>>

\* case 'a', malloc succeeded
OptA(arg, maxOpts) ==
    /\ pc = "opts"
    /\ nopts < maxOpts
    /\ it_root' = AddEntry(it_root, arg, Len(it_root))
    /\ it' = 1
    /\ nopts' = nopts + 1
    /\ UNCHANGED <<pc, exit_code, have_idle, stops>>
    /\ UNCHANGED loopVars

\* case 'a', malloc failed: return 2
OptANoMem(maxOpts) ==
    /\ pc = "opts"
    /\ nopts < maxOpts
    /\ pc' = "exit"
    /\ exit_code' = 2
    /\ nopts' = nopts + 1
    /\ UNCHANGED <<it_root, it, have_idle, stops>>
    /\ UNCHANGED loopVars

\* case 'i'
OptI(arg, maxOpts) ==
    /\ pc = "opts"
    /\ nopts < maxOpts
    /\ it_root' = SetIdle(it_root, it, arg)
    /\ nopts' = nopts + 1
    /\ have_idle' = TRUE
    /\ UNCHANGED <<pc, it, exit_code, stops>>
    /\ UNCHANGED loopVars

\* lines 453-504: spindown_disk(name) sends SCSI stop unit unless the device
\* cannot be opened; how the call ended
spindown_disk(opened, iReply) ==
    IF ~opened THEN "not opened"
    ELSE IF iReply = 0 THEN "failed" ELSE "success"

\* faulty variant: break instead of return 0
OptTGoesOn(arg, opened, iReply, maxOpts) ==
    /\ pc = "opts"
    /\ nopts < maxOpts
    /\ stops' = Append(stops, [name |-> arg, result |-> spindown_disk(opened, iReply)])
    /\ nopts' = nopts + 1
    /\ UNCHANGED <<pc, exit_code, it_root, it, have_idle>>
    /\ UNCHANGED loopVars

\* case 't': spindown_disk(optarg); return 0
OptT(arg, opened, iReply, maxOpts) ==
    /\ pc = "opts"
    /\ nopts < maxOpts
    /\ stops' = Append(stops, [name |-> arg, result |-> spindown_disk(opened, iReply)])
    /\ pc' = "exit"
    /\ exit_code' = 0
    /\ nopts' = nopts + 1
    /\ UNCHANGED <<it_root, it, have_idle>>
    /\ UNCHANGED loopVars

\* case 'h': the usage line; return 0
OptH(maxOpts) ==
    /\ pc = "opts"
    /\ nopts < maxOpts
    /\ pc' = "exit"
    /\ exit_code' = 0
    /\ nopts' = nopts + 1
    /\ UNCHANGED <<it_root, it, have_idle, stops>>
    /\ UNCHANGED loopVars

\* case ':' and case '?': an option without its argument, an unknown option;
\* return 1
OptBad(maxOpts) ==
    /\ pc = "opts"
    /\ nopts < maxOpts
    /\ pc' = "exit"
    /\ exit_code' = 1
    /\ nopts' = nopts + 1
    /\ UNCHANGED <<it_root, it, have_idle, stops>>
    /\ UNCHANGED loopVars

\* getopt returned -1: lines 261-276, up to the first round of the loop
EndOpts ==
    /\ pc = "opts"
    /\ sleep_time' = SleepTime(it_root)
    /\ pc' = "loop"
    /\ i' = 0
    /\ nopts' = 0
    /\ UNCHANGED <<ndrives, have_idle, it_root, it, ds_root, clock, tried_diskperf,
                   exit_code, obs, issued, hist, ever_fixed, calls, leaked, tried, stops>>

(***************************************************************************)
(* The loop body's pieces.                                                 *)
(***************************************************************************)
\* get_diskstats(name): position of the first record of that name, 0 for NULL
get_diskstats(root, name) ==
    IF \E k \in 1..Len(root) : StrEq(root[k].name, name)
    THEN CHOOSE k \in 1..Len(root) :
            /\ StrEq(root[k].name, name)
            /\ \A j \in 1..(k - 1) : ~StrEq(root[j].name, name)
    ELSE 0

\* faulty variant: a drive that is asleep and unknown gets a record
MarkAsleepCreating(root, name) ==
    LET p == get_diskstats(root, name)
    IN  IF p # 0 THEN [root EXCEPT ![p].spun_down = TRUE]
        ELSE <<[ZeroStats EXCEPT !.name = name, !.spun_down = TRUE]>> \o root

\* faulty variant: a drive that is asleep and unknown gets a record with the
\* default idle time
MarkAsleepTracking(root, name) ==
    LET p == get_diskstats(root, name)
    IN  IF p # 0 THEN [root EXCEPT ![p].spun_down = TRUE]
        ELSE <<[ZeroStats EXCEPT !.name = name, !.spun_down = TRUE,
                                 !.idle_time = DEFAULT_IDLE_TIME]>> \o root

\* faulty variant: the record of a drive that is asleep is overwritten with tmp,
\* which holds no counters on this path
MarkAsleepResetting(root, name) ==
    LET p == get_diskstats(root, name)
    IN  IF p # 0
        THEN [root EXCEPT ![p].spun_down = TRUE, ![p].reads = 0, ![p].writes = 0,
                          ![p].last_io = 0]
        ELSE root

\* lines 303-306: the drive is asleep; ds->spun_down = true if it is known
MarkAsleep(root, name) ==
    LET p == get_diskstats(root, name)
    IN  IF p # 0 THEN [root EXCEPT ![p].spun_down = TRUE] ELSE root

\* faulty variant: of the entries that carry the disk's name the oldest decides
RECURSIVE FindIdleTimeOldest(_, _)
FindIdleTimeOldest(root, ds) ==
    IF root = <<>> THEN ds
    ELSE IF Head(root).name = <<>>
         THEN [ds EXCEPT !.idle_time = Head(root).idle_time]
         ELSE IF /\ StrEq(ds.name, Head(root).name[1])
                 /\ \A k \in 2..Len(root) :
                       root[k].name = <<>> \/ ~StrEq(ds.name, root[k].name[1])
              THEN [ds EXCEPT !.idle_time = Head(root).idle_time]
              ELSE FindIdleTimeOldest(Tail(root), ds)

\* lines 397-402: first entry that is the default or carries the disk's name
RECURSIVE FindIdleTime(_, _)
FindIdleTime(root, ds) ==
    IF root = <<>> THEN ds
    ELSE IF Head(root).name = <<>> \/ StrEq(ds.name, Head(root).name[1])
         THEN [ds EXCEPT !.idle_time = Head(root).idle_time]
         ELSE FindIdleTime(Tail(root), ds)

\* faulty variant: last_io and spinup are left as tmp has them
NewStatsNoBaseline(tmp, now) == FindIdleTime(it_root, tmp)

\* lines 386-402: the record of a new disk
NewStats(tmp, now) ==
    FindIdleTime(it_root, [tmp EXCEPT !.last_io = now, !.spinup = now])

\* faulty variant: only the reads are compared
SameReads(ds, tmp) == ds.reads = tmp.reads

\* line 405
SameCounts(ds, tmp) == ds.reads = tmp.reads /\ ds.writes = tmp.writes

\* faulty variant: the time of the last I/O is not subtracted
IdleExpiredSinceStart(ds, now) == ds.idle_time # 0 /\ now >= ds.idle_time

\* faulty variant: an idle time of 0 is not exempt
IdleExpiredZeroToo(ds, now) == now - ds.last_io >= ds.idle_time

\* faulty variant: > instead of >=
IdleExpiredLate(ds, now) == ds.idle_time # 0 /\ now - ds.last_io > ds.idle_time

\* line 409
IdleExpired(ds, now) == ds.idle_time # 0 /\ now - ds.last_io >= ds.idle_time

\* faulty variant: spun_down is not looked at
StandbyDueAgain(ds, now) == IdleExpired(ds, now)

\* faulty variant: a drive marked as spun down that was never sent a command
\* is still due
StandbyDueUnlessCommanded(ds, now) ==
    (~ds.spun_down \/ ds.spindown = 0) /\ IdleExpired(ds, now)

\* lines 406-409: no activity, still running and idle for long enough
StandbyDue(ds, now) == ~ds.spun_down /\ IdleExpired(ds, now)

\* faulty variant: spun_down is not set
SpunDownUnmarked(ds, now) == [ds EXCEPT !.spindown = now]

\* lines 411-412
SpunDown(ds, now) == [ds EXCEPT !.spindown = now, !.spun_down = TRUE]

\* faulty variant: the record is overwritten with tmp, as for a new disk
ActivityCopyingTmp(ds, tmp, now) ==
    [tmp EXCEPT !.spinup = IF ds.spun_down THEN now ELSE ds.spinup,
                !.spindown = ds.spindown,
                !.last_io = now]

\* lines 421-428: the disk had some activity
Activity(ds, tmp, now) ==
    [ds EXCEPT !.spinup = IF ds.spun_down THEN now ELSE @,
               !.reads = tmp.reads,
               !.writes = tmp.writes,
               !.last_io = now,
               !.spun_down = FALSE]

Tracked(name) == get_diskstats(ds_root, name) # 0
Stats(name) == ds_root[get_diskstats(ds_root, name)]

\* history: the drive's round did not go through the unchanged branch
Unclean(names) ==
    [n \in DriveNames |->
        IF n \in names /\ Tracked(n) THEN [hist[n] EXCEPT !.clean = FALSE]
        ELSE hist[n]]

Seen(name, on, fixed, read_ok, reads, writes) ==
    [name |-> name, opened |-> TRUE, on |-> on, fixed |-> fixed,
     read_ok |-> read_ok, reads |-> reads, writes |-> writes, now |-> clock,
     had |-> Tracked(name),
     pre |-> IF Tracked(name) THEN Stats(name) ELSE ZeroStats]

InLoop == pc = "loop" /\ i < MAX_DRIVE_INDEX

\* what a pass calls up to the power probe, and up to the counters
ProbeCalls == <<"CreateFile", "GetDevicePowerState">>
ReadCalls ==
    ProbeCalls \o <<"GetDriveTypeA", "ata_check_power_mode", "DeviceIoControl",
                    "CloseHandle">>

\* lines 535-550 and 642-657: ata_check_power_mode and ata_set_standby_mode
\* return without CloseHandle when the pass-through command fails; the handles
\* such a call leaves open
HandlesLeft(opened, passed) == IF opened /\ ~passed THEN 1 ELSE 0

\* lines 612-662: ata_set_standby_mode returns false if the device cannot be
\* opened or the pass-through command fails
ata_set_standby_mode(opened, passed) ==
    IF ~opened THEN FALSE ELSE IF ~passed THEN FALSE ELSE TRUE

\* faulty variant: the drive counts as spun down only if the command succeeded
AfterStandbyIfDone(ds, now, ok) == IF ok THEN SpunDown(ds, now) ELSE ds

\* lines 410-412: the result of ata_set_standby_mode is not looked at
AfterStandby(ds, now, ok) == SpunDown(ds, now)

(***************************************************************************)
(* One pass through the body of the inner loop, by the path it takes.      *)
(***************************************************************************)
\* faulty variant: without admin privileges the program gives up
OpenFailDeniedExits(error) ==
    /\ InLoop
    /\ pc' = IF error = ERROR_ACCESS_DENIED THEN "exit" ELSE "sleep"
    /\ exit_code' = IF error = ERROR_ACCESS_DENIED THEN 1 ELSE exit_code
    /\ tried' = Append(tried, [index |-> i, opened |-> FALSE])
    /\ obs' = [NoObs EXCEPT !.name = DriveName(i), !.now = clock]
    /\ issued' = <<>>
    /\ hist' = Unclean({ DriveName(k) : k \in { j \in Drives : j >= i } })
    /\ calls' = <<"CreateFile">>
    /\ leaked' = 0
    /\ UNCHANGED <<ndrives, have_idle, nopts, it_root, it, sleep_time, ds_root, i, clock,
                   tried_diskperf, ever_fixed, stops>>

\* faulty variant: a drive that cannot be opened loses its record
OpenFailForgets(error) ==
    /\ InLoop
    /\ pc' = "sleep"
    /\ ds_root' = SelectSeq(ds_root, LAMBDA d : ~StrEq(d.name, DriveName(i)))
    /\ tried' = Append(tried, [index |-> i, opened |-> FALSE])
    /\ obs' = [NoObs EXCEPT !.name = DriveName(i), !.now = clock]
    /\ issued' = <<>>
    /\ hist' = Unclean({ DriveName(k) : k \in { j \in Drives : j >= i } })
    /\ calls' = <<"CreateFile">>
    /\ leaked' = 0
    /\ UNCHANGED <<ndrives, have_idle, nopts, it_root, it, sleep_time, i, clock,
                   tried_diskperf, exit_code, ever_fixed, stops>>

\* faulty variant: continue instead of break
OpenFailGoesOn(error) ==
    /\ InLoop
    /\ i' = i + 1
    /\ tried' = Append(tried, [index |-> i, opened |-> FALSE])
    /\ obs' = [NoObs EXCEPT !.name = DriveName(i), !.now = clock]
    /\ issued' = <<>>
    /\ hist' = Unclean({DriveName(i)})
    /\ calls' = <<"CreateFile">>
    /\ leaked' = 0
    /\ UNCHANGED <<ndrives, have_idle, pc, nopts, it_root, it, sleep_time, ds_root, clock,
                   tried_diskperf, exit_code, ever_fixed, stops>>

\* lines 284-295: CreateFile failed; the round ends
OpenFail(error) ==
    /\ InLoop
    /\ pc' = "sleep"
    /\ tried' = Append(tried, [index |-> i, opened |-> FALSE])
    /\ obs' = [NoObs EXCEPT !.name = DriveName(i), !.now = clock]
    /\ issued' = <<>>
    /\ hist' = Unclean({ DriveName(k) : k \in { j \in Drives : j >= i } })
    /\ calls' = <<"CreateFile">>
    /\ leaked' = 0
    /\ UNCHANGED <<ndrives, have_idle, nopts, it_root, it, sleep_time, ds_root, i, clock,
                   tried_diskperf, exit_code, ever_fixed, stops>>

\* lines 299-309: GetDevicePowerState failed or says the drive is off
Asleep(r, fOn) ==
    /\ InLoop /\ i \in Drives
    /\ r = 0 \/ fOn = FALSE
    /\ ds_root' = MarkAsleep(ds_root, DriveName(i))
    /\ tried' = Append(tried, [index |-> i, opened |-> TRUE])
    /\ obs' = Seen(DriveName(i), FALSE, FALSE, FALSE, 0, 0)
    /\ issued' = <<>>
    /\ hist' = Unclean({DriveName(i)})
    /\ calls' = ProbeCalls \o <<"CloseHandle">>
    /\ leaked' = 0
    /\ i' = i + 1
    /\ UNCHANGED <<ndrives, have_idle, pc, nopts, it_root, it, sleep_time, clock, tried_diskperf,
                   exit_code, ever_fixed, stops>>

\* lines 312-328: not a fixed drive
NotFixed(type) ==
    /\ InLoop /\ i \in Drives
    /\ type # DRIVE_FIXED
    /\ tried' = Append(tried, [index |-> i, opened |-> TRUE])
    /\ obs' = Seen(DriveName(i), TRUE, FALSE, FALSE, 0, 0)
    /\ issued' = <<>>
    /\ hist' = Unclean({DriveName(i)})
    /\ calls' = ProbeCalls \o <<"GetDriveTypeA">>
    /\ leaked' = 1
    /\ i' = i + 1
    /\ UNCHANGED <<ndrives, have_idle, pc, nopts, it_root, it, sleep_time, ds_root, clock,
                   tried_diskperf, exit_code, ever_fixed, stops>>

\* faulty variant: break instead of continue
ReadFailEndsRound(error, aopened, apassed) ==
    /\ InLoop /\ i \in Drives
    /\ tried_diskperf' =
          IF error = ERROR_INVALID_FUNCTION /\ tried_diskperf = FALSE
          THEN TRUE ELSE tried_diskperf
    /\ tried' = Append(tried, [index |-> i, opened |-> TRUE])
    /\ obs' = Seen(DriveName(i), TRUE, TRUE, FALSE, 0, 0)
    /\ issued' = <<>>
    /\ hist' = Unclean({DriveName(i)})
    /\ ever_fixed' = ever_fixed \cup {DriveName(i)}
    /\ calls' = ReadCalls
    /\ leaked' = HandlesLeft(aopened, apassed)
    /\ pc' = "sleep"
    /\ UNCHANGED <<ndrives, have_idle, i, nopts, it_root, it, sleep_time, ds_root, clock,
                   exit_code, stops>>

\* lines 346-369: IOCTL_DISK_PERFORMANCE failed
ReadFail(error, aopened, apassed) ==
    /\ InLoop /\ i \in Drives
    /\ tried_diskperf' =
          IF error = ERROR_INVALID_FUNCTION /\ tried_diskperf = FALSE
          THEN TRUE ELSE tried_diskperf
    /\ tried' = Append(tried, [index |-> i, opened |-> TRUE])
    /\ obs' = Seen(DriveName(i), TRUE, TRUE, FALSE, 0, 0)
    /\ issued' = <<>>
    /\ hist' = Unclean({DriveName(i)})
    /\ ever_fixed' = ever_fixed \cup {DriveName(i)}
    /\ calls' = ReadCalls \o
                   (IF error = ERROR_INVALID_FUNCTION /\ tried_diskperf = FALSE
                    THEN <<"system">> ELSE <<>>)
    /\ leaked' = HandlesLeft(aopened, apassed)
    /\ i' = i + 1
    /\ UNCHANGED <<ndrives, have_idle, pc, nopts, it_root, it, sleep_time, ds_root, clock,
                   exit_code, stops>>

\* lines 372-404: no record yet, malloc succeeded
NewDisk(reads, writes, aopened, apassed) ==
    /\ InLoop /\ i \in Drives
    /\ get_diskstats(ds_root, DriveName(i)) = 0
    /\ ds_root' = <<NewStats(TmpStats(DriveName(i), reads, writes), clock)>> \o ds_root
    /\ tried' = Append(tried, [index |-> i, opened |-> TRUE])
    /\ obs' = Seen(DriveName(i), TRUE, TRUE, TRUE, reads, writes)
    /\ issued' = <<>>
    /\ hist' = [hist EXCEPT ![DriveName(i)] = NoHist]
    /\ ever_fixed' = ever_fixed \cup {DriveName(i)}
    /\ calls' = ReadCalls \o <<"malloc">>
    /\ leaked' = HandlesLeft(aopened, apassed)
    /\ i' = i + 1
    /\ UNCHANGED <<ndrives, have_idle, pc, nopts, it_root, it, sleep_time, clock, tried_diskperf,
                   exit_code, stops>>

\* lines 382-385: no record yet, malloc failed: return(2)
NewDiskNoMem(reads, writes, aopened, apassed) ==
    /\ InLoop /\ i \in Drives
    /\ get_diskstats(ds_root, DriveName(i)) = 0
    /\ pc' = "exit"
    /\ exit_code' = 2
    /\ tried' = Append(tried, [index |-> i, opened |-> TRUE])
    /\ obs' = Seen(DriveName(i), TRUE, TRUE, TRUE, reads, writes)
    /\ issued' = <<>>
    /\ ever_fixed' = ever_fixed \cup {DriveName(i)}
    /\ calls' = ReadCalls \o <<"malloc">>
    /\ leaked' = HandlesLeft(aopened, apassed)
    /\ UNCHANGED <<ndrives, have_idle, nopts, it_root, it, sleep_time, ds_root, i, clock,
                   tried_diskperf, hist, stops>>

\* lines 405-417: the counters are the stored ones
\* aopened, apassed: how CreateFile and the pass-through command end inside
\* ata_check_power_mode (lines 507-561; what it returns only picks a word of
\* the debug output); opened, passed: the same inside ata_set_standby_mode, if
\* it is called
Unchanged(reads, writes, aopened, apassed, opened, passed) ==
    LET p == get_diskstats(ds_root, DriveName(i))
        tmp == TmpStats(DriveName(i), reads, writes)
        ok == ata_set_standby_mode(opened, passed)
    IN  /\ InLoop /\ i \in Drives
        /\ p # 0
        /\ SameCounts(ds_root[p], tmp)
        /\ IF StandbyDue(ds_root[p], clock)
           THEN /\ issued' = <<ds_root[p].name>>
                /\ ds_root' = [ds_root EXCEPT ![p] = AfterStandby(@, clock, ok)]
                /\ hist' = [hist EXCEPT ![DriveName(i)].cmds = @ + 1,
                                        ![DriveName(i)].failed = ~ok]
                /\ calls' = ReadCalls \o <<"ata_set_standby_mode">>
                /\ leaked' = HandlesLeft(aopened, apassed) + HandlesLeft(opened, passed)
           ELSE /\ issued' = <<>>
                /\ calls' = ReadCalls
                /\ leaked' = HandlesLeft(aopened, apassed)
                /\ UNCHANGED <<ds_root, hist>>
        /\ tried' = Append(tried, [index |-> i, opened |-> TRUE])
        /\ obs' = Seen(DriveName(i), TRUE, TRUE, TRUE, reads, writes)
        /\ ever_fixed' = ever_fixed \cup {DriveName(i)}
        /\ i' = i + 1
        /\ UNCHANGED <<ndrives, have_idle, pc, nopts, it_root, it, sleep_time, clock,
                       tried_diskperf, exit_code, stops>>

\* lines 418-429: the counters differ from the stored ones
Changed(reads, writes, aopened, apassed) ==
    LET p == get_diskstats(ds_root, DriveName(i))
        tmp == TmpStats(DriveName(i), reads, writes)
    IN  /\ InLoop /\ i \in Drives
        /\ p # 0
        /\ ~SameCounts(ds_root[p], tmp)
        /\ ds_root' = [ds_root EXCEPT ![p] = Activity(@, tmp, clock)]
        /\ issued' = <<>>
        /\ hist' = [hist EXCEPT ![DriveName(i)] = NoHist]
        /\ tried' = Append(tried, [index |-> i, opened |-> TRUE])
        /\ obs' = Seen(DriveName(i), TRUE, TRUE, TRUE, reads, writes)
        /\ ever_fixed' = ever_fixed \cup {DriveName(i)}
        /\ calls' = ReadCalls
        /\ leaked' = HandlesLeft(aopened, apassed)
        /\ i' = i + 1
        /\ UNCHANGED <<ndrives, have_idle, pc, nopts, it_root, it, sleep_time, clock,
                       tried_diskperf, exit_code, stops>>

\* history: the round that ends at `now` was the first with the drive's idle
\* time used up
DueAt(now) ==
    [n \in DriveNames |->
        IF /\ Tracked(n)
           /\ hist[n].first_due = -1
           /\ Stats(n).idle_time > 0
           /\ now - Stats(n).last_io >= Stats(n).idle_time
        THEN [hist[n] EXCEPT !.first_due = now]
        ELSE hist[n]]

\* line 134: sleep(x) is Sleep((x)*1000), and Sleep takes the product as a
\* DWORD: the seconds a call sleep(s) lasts
SleepSeconds(s) == IF s >= 0 THEN s ELSE DWORD_SECONDS + s

\* line 431 and the start of the next round (lines 274-278); no round starts
\* after maxTime, but for the one that follows a sleep of a negative sleep_time
Sleep(maxTime) ==
    /\ pc = "sleep" \/ (pc = "loop" /\ i >= MAX_DRIVE_INDEX)
    /\ \/ clock + SleepSeconds(sleep_time) <= maxTime
       \/ sleep_time < 0 /\ clock <= maxTime
    /\ clock' = clock + SleepSeconds(sleep_time)
    /\ pc' = "loop"
    /\ i' = 0
    /\ tried' = <<>>
    /\ obs' = NoObs
    /\ issued' = <<>>
    /\ calls' = <<>>
    /\ leaked' = 0
    /\ hist' = DueAt(clock)
    /\ UNCHANGED <<ndrives, have_idle, nopts, it_root, it, sleep_time, ds_root, tried_diskperf,
                   exit_code, ever_fixed, stops>>

Counts == 0 .. MaxCount

\* ata: the ways ata_check_power_mode may end, as <<opened, passed>>; they
\* differ in the handles left open and in a word of the debug output only
NextB(maxOpts, maxTime, ata) ==
    \/ \E arg \in NameArgs : OptA(arg, maxOpts)
    \/ OptANoMem(maxOpts)
    \/ \E arg \in IdleArgs : OptI(arg, maxOpts)
    \/ \E arg \in NameArgs, opened \in BOOLEAN, iReply \in {0, 1} :
          OptT(arg, opened, iReply, maxOpts)
    \/ OptH(maxOpts)
    \/ OptBad(maxOpts)
    \/ EndOpts
    \/ \E error \in OpenErrors : OpenFail(error)
    \/ \E r \in {0, 1}, fOn \in BOOLEAN : Asleep(r, fOn)
    \/ \E type \in DriveTypes : NotFixed(type)
    \/ \E error \in ReadErrors, a \in ata : ReadFail(error, a[1], a[2])
    \/ \E reads \in Counts, writes \in Counts, a \in ata :
          NewDisk(reads, writes, a[1], a[2])
    \/ \E reads \in Counts, writes \in Counts, a \in ata :
          NewDiskNoMem(reads, writes, a[1], a[2])
    \/ \E reads \in Counts, writes \in Counts, a \in ata,
          opened \in BOOLEAN, passed \in BOOLEAN :
          Unchanged(reads, writes, a[1], a[2], opened, passed)
    \/ \E reads \in Counts, writes \in Counts, a \in ata :
          Changed(reads, writes, a[1], a[2])
    \/ Sleep(maxTime)

Next == NextB(MaxOpts, MaxTime, {<<TRUE, TRUE>>})
Spec == Init /\ [][Next]_vars

\* the same program, with the pass-through command of ata_check_power_mode
\* failing or not
NextHandles == NextB(HandMaxOpts, HandMaxTime, BOOLEAN \X BOOLEAN)
SpecHandles == Init /\ [][NextHandles]_vars

\* the same program on a machine with two drives
NextPair == NextB(PairMaxOpts, PairMaxTime, {<<TRUE, TRUE>>})
SpecPair == InitM(2) /\ [][NextPair]_vars

\* the same program, with a longer command line and a shorter run
NextPolicy == NextB(PolMaxOpts, PolMaxTime, {<<TRUE, TRUE>>})
SpecPolicy == Init /\ [][NextPolicy]_vars

(***************************************************************************)
(* Properties.                                                             *)
(***************************************************************************)
\* the last pass read the counters of a known drive and found the stored ones
SawUnchanged ==
    /\ obs.opened /\ obs.on /\ obs.fixed /\ obs.read_ok /\ obs.had
    /\ obs.reads = obs.pre.reads /\ obs.writes = obs.pre.writes

\* the last pass read the counters of a known drive and found other ones
SawChanged ==
    /\ obs.opened /\ obs.on /\ obs.fixed /\ obs.read_ok /\ obs.had
    /\ (obs.reads # obs.pre.reads \/ obs.writes # obs.pre.writes)

\* C1: a pass sends the standby command only to the drive it probed, and only
\* if the power probe said on, the drive type was fixed, the counters were
\* read and equal the stored ones, spun_down was false, idle_time is not 0
\* and now - last_io >= idle_time.
C1_StandbyOnlyIfIdleFixedDisk ==
    issued # <<>> =>
        /\ issued = <<obs.name>>
        /\ obs.name \in DriveNames
        /\ SawUnchanged
        /\ obs.pre.name = obs.name
        /\ ~obs.pre.spun_down
        /\ obs.pre.idle_time # 0
        /\ obs.now - obs.pre.last_io >= obs.pre.idle_time

C1_Witness == issued # <<>> /\ obs.now - obs.pre.last_io > obs.pre.idle_time

\* C2 as stated: a drive with idle_time = T > 0 whose counters were never
\* seen changed since last_io is sent exactly one standby command, in the
\* first round in which now - last_io >= T holds.  Here: in the first such
\* round, if it reads the counters and finds the stored ones, the command is
\* sent and is the only one since last_io.
C2_OneStandbyWheneverDue ==
    ( /\ SawUnchanged
      /\ obs.pre.idle_time > 0
      /\ hist[obs.name].first_due = -1
      /\ obs.now - obs.pre.last_io >= obs.pre.idle_time ) =>
        /\ issued = <<obs.name>>
        /\ hist[obs.name].cmds = 1

\* C2 as amended: for a drive with idle_time = T > 0 that, in every round
\* since last_io was set, was opened, reported on and fixed and had its
\* counters read and found unchanged: at most one standby command was sent;
\* once a round with now - last_io >= T is over exactly one was sent, in the
\* first such round; and none was sent before now - last_io >= T.
C2_OneStandbyAtFirstDueRound ==
    \A n \in DriveNames :
        (Tracked(n) /\ Stats(n).idle_time > 0 /\ hist[n].clean) =>
            /\ hist[n].cmds <= 1
            /\ hist[n].first_due # -1 =>
                  /\ hist[n].cmds = 1
                  /\ Stats(n).spun_down
                  /\ Stats(n).spindown = hist[n].first_due
            /\ hist[n].cmds = 1 =>
                  /\ Stats(n).spindown - Stats(n).last_io >= Stats(n).idle_time
                  /\ hist[n].first_due \in {-1, Stats(n).spindown}

C2_Witness ==
    \E n \in DriveNames :
        /\ Tracked(n) /\ Stats(n).idle_time > 0 /\ hist[n].clean
        /\ hist[n].first_due # -1
        /\ obs.name = n /\ SawUnchanged /\ obs.now > hist[n].first_due

\* C3: a drive whose idle_time is 0 is never sent the standby command, and a
\* pass that finds its counters unchanged leaves its record as it was (the
\* idle decision sets neither spun_down nor spindown).
C3_ZeroIdleTimeNeverSpunDown ==
    \A n \in DriveNames :
        (Tracked(n) /\ Stats(n).idle_time = 0) =>
            /\ issued # <<n>>
            /\ hist[n].cmds = 0
            /\ Stats(n).spindown = 0
            /\ (obs.name = n /\ SawUnchanged) => Stats(n) = obs.pre

C3_Witness ==
    \E n \in DriveNames :
        /\ Tracked(n) /\ Stats(n).idle_time = 0
        /\ obs.name = n /\ SawUnchanged /\ ~obs.pre.spun_down
        /\ obs.now - Stats(n).last_io >= 2
        /\ \E k \in 1..Len(it_root) : it_root[k].idle_time = 2

\* C4: a pass that finds the counters unchanged while spun_down is set sends
\* no standby command and leaves the record as it was; and since the counters
\* of a drive were last seen changed (or the drive was first seen) at most one
\* standby command was sent to it.
C4_NoSecondStandbyWithoutActivity ==
    /\ (SawUnchanged /\ obs.pre.spun_down) =>
          issued = <<>> /\ Stats(obs.name) = obs.pre
    /\ \A n \in DriveNames : hist[n].cmds <= 1

C4_Witness ==
    /\ SawUnchanged /\ obs.pre.spun_down
    /\ hist[obs.name].cmds = 1
    /\ obs.pre.spindown < obs.now
    /\ IdleExpired(obs.pre, obs.now)

\* C5: a pass that reads counters other than the stored ones (more or fewer,
\* reads or writes) stores the new counters, sets last_io = now and
\* spun_down = false, sets spinup = now if spun_down was set and leaves
\* spinup alone otherwise, changes nothing else and sends no standby command.
C5_ActivityAndSpinUp ==
    SawChanged =>
        /\ issued = <<>>
        /\ Tracked(obs.name)
        /\ Stats(obs.name) =
              [obs.pre EXCEPT !.reads = obs.reads,
                              !.writes = obs.writes,
                              !.last_io = obs.now,
                              !.spun_down = FALSE,
                              !.spinup = IF obs.pre.spun_down THEN obs.now
                                         ELSE obs.pre.spinup]

\* spin-up seen through the writes alone, going down
C5_Witness ==
    /\ SawChanged /\ obs.pre.spun_down
    /\ obs.reads = obs.pre.reads /\ obs.writes < obs.pre.writes
    /\ obs.pre.spinup < obs.now

\* C6: in a pass with unchanged counters, spun_down unset and idle_time
\* T > 0 the standby command is sent if and only if now - last_io >= T; when
\* it is not sent the record is left as it was.
C6_ThresholdIsInclusive ==
    (SawUnchanged /\ ~obs.pre.spun_down /\ obs.pre.idle_time > 0) =>
        /\ issued = <<obs.name>> <=>
              obs.now - obs.pre.last_io >= obs.pre.idle_time
        /\ issued = <<>> => Stats(obs.name) = obs.pre

\* baseline at 0, unchanged at 1, 2, 3 with T = 3: sent at 3
C6_Witness ==
    /\ SawUnchanged /\ issued = <<obs.name>>
    /\ obs.pre.idle_time = 3 /\ obs.pre.last_io = 0 /\ obs.now = 3
    /\ hist[obs.name].clean

\* the entries of it_root that carry a name
Named == { k \in 1..Len(it_root) : it_root[k].name # <<>> }
Matching(n) == { k \in Named : it_root[k].name = <<n>> }

\* C7: the idle_time of a record is that of an entry named exactly like the
\* drive if there is one, and that of the default entry otherwise; there is
\* exactly one default entry and it is the last of the list.
C7_PolicyResolution ==
    /\ Len(it_root) >= 1
    /\ \A k \in 1..Len(it_root) : it_root[k].name = <<>> <=> k = Len(it_root)
    /\ \A n \in DriveNames :
          Tracked(n) =>
              IF Matching(n) # {}
              THEN \E k \in Matching(n) : Stats(n).idle_time = it_root[k].idle_time
              ELSE Stats(n).idle_time = it_root[Len(it_root)].idle_time

\* a named entry decides though the default entry says otherwise
C7_Witness ==
    \E n \in DriveNames :
        /\ Tracked(n) /\ Matching(n) # {} /\ Named # Matching(n)
        /\ \A k \in 1..Len(it_root) :
              k \notin Matching(n) => it_root[k].idle_time # Stats(n).idle_time

\* C8 as stated: in the main loop, if the command line held no -i, the default
\* entry has an idle_time of 600, and so has the record of a drive no named
\* entry matches.
C8_DefaultIsTenMinutes ==
    (pc \in {"loop", "sleep"} /\ ~have_idle) =>
        /\ it_root[Len(it_root)].idle_time = 600
        /\ \A n \in DriveNames :
              (Tracked(n) /\ Matching(n) = {}) => Stats(n).idle_time = 600

\* C9: if several entries carry the drive's name, the one made by the latest
\* -a option decides.
C9_LatestNamedEntryWins ==
    \A n \in DriveNames :
        (Tracked(n) /\ Matching(n) # {}) =>
            \E k \in Matching(n) :
                /\ \A j \in Matching(n) : it_root[j].opt <= it_root[k].opt
                /\ Stats(n).idle_time = it_root[k].idle_time

C9_Witness ==
    \E n \in DriveNames :
        /\ Tracked(n)
        /\ \E j, k \in Matching(n) :
              /\ it_root[j].opt < it_root[k].opt
              /\ it_root[j].idle_time # it_root[k].idle_time
              /\ Stats(n).idle_time = it_root[k].idle_time

\* C10: a drive that GetDriveTypeA never reported as fixed has no record.
C10_NoRecordUnlessFixed ==
    \A n \in DriveNames : Tracked(n) => n \in ever_fixed

\* after a pass that found the drive asleep, in a later round
C10_Witness ==
    \E n \in DriveNames :
        /\ ~Tracked(n) /\ n \notin ever_fixed
        /\ obs.name = n /\ obs.opened /\ ~obs.on
        /\ clock >= 2

\* the last pass called c
Called(c) == \E k \in 1..Len(calls) : calls[k] = c

\* the last pass opened the drive and the power probe failed or said off
SawAsleep == obs.opened /\ ~obs.on

\* C11 as stated: a pass that finds a drive without a record asleep makes a
\* record for it with spun_down set, and does not read the counters.
C11_AsleepUnseenGetsRecord ==
    (SawAsleep /\ ~obs.had) =>
        /\ Tracked(obs.name)
        /\ Stats(obs.name).spun_down
        /\ ~Called("DeviceIoControl")

\* C11 as amended: a pass that finds a drive without a record asleep makes no
\* record (the drive stays unknown), does not read the counters and sends no
\* standby command.
C11_AsleepUnseenStaysUnseen ==
    (SawAsleep /\ ~obs.had) =>
        /\ ~Tracked(obs.name)
        /\ ~Called("DeviceIoControl")
        /\ ~Called("malloc")
        /\ issued = <<>>

\* the very first pass of the program finds the drive asleep
C11_Witness ==
    /\ SawAsleep /\ ~obs.had /\ obs.now = 0 /\ ever_fixed = {}
    /\ calls = ProbeCalls \o <<"CloseHandle">>

\* C12: a pass in which GetDevicePowerState fails or says off calls nothing
\* after it but CloseHandle (no GetDriveTypeA, no ata_check_power_mode, no
\* IOCTL_DISK_PERFORMANCE, no ata_set_standby_mode); if the drive has a record
\* the pass sets spun_down and leaves reads, writes, last_io, spindown, spinup
\* and idle_time as they were.
C12_AsleepShortCircuit ==
    SawAsleep =>
        /\ calls = <<"CreateFile", "GetDevicePowerState", "CloseHandle">>
        /\ issued = <<>>
        /\ obs.had =>
              /\ Tracked(obs.name)
              /\ Stats(obs.name) = [obs.pre EXCEPT !.spun_down = TRUE]

\* a running drive with a record, idle for long enough to be stopped
C12_Witness ==
    /\ SawAsleep /\ obs.had
    /\ ~obs.pre.spun_down
    /\ IdleExpired(obs.pre, obs.now)
    /\ obs.pre.reads + obs.pre.writes > 0

\* C13: a pass that calls ata_set_standby_mode sets spindown = now and
\* spun_down, whatever the call returns; and after a call that returned false
\* no second one is made while the counters stay the stored ones.
C13_MarkedWhateverTheResult ==
    /\ issued # <<>> =>
          /\ Stats(issued[1]).spindown = obs.now
          /\ Stats(issued[1]).spun_down
    /\ \A n \in DriveNames :
          hist[n].failed => hist[n].cmds = 1 /\ Stats(n).spun_down

\* a round after the one whose command failed, counters still the same
C13_Witness ==
    /\ SawUnchanged /\ hist[obs.name].failed
    /\ obs.pre.spun_down /\ obs.pre.spindown < obs.now
    /\ IdleExpired(obs.pre, obs.now)
    /\ issued = <<>>

\* the last pass got as far as the counters and could not read them
SawReadFail == obs.opened /\ obs.on /\ obs.fixed /\ ~obs.read_ok

\* C14: a pass in which IOCTL_DISK_PERFORMANCE fails makes no record, leaves
\* the record the drive has as it was, sends no standby command, and the loop
\* goes on with the next index.
C14_ReadFailureSkipsDrive ==
    SawReadFail =>
        /\ issued = <<>>
        /\ ~Called("malloc") /\ ~Called("ata_set_standby_mode")
        /\ Tracked(obs.name) = obs.had
        /\ obs.had => Stats(obs.name) = obs.pre
        /\ pc = "loop" /\ exit_code = 0
        /\ i >= 1 /\ DriveName(i - 1) = obs.name

\* the drive has a record, is running and was idle for long enough
C14_Witness ==
    /\ SawReadFail /\ obs.had
    /\ StandbyDue(obs.pre, obs.now)
    /\ obs.now >= 2

\* the idle times of the list that are not 0, and the smallest of a set
NonZeroIdle == { it_root[k].idle_time : k \in 1..Len(it_root) } \ {0}
Smallest(S) == CHOOSE m \in S : \A x \in S : m <= x
Larger(a, b) == IF a >= b THEN a ELSE b
Smaller(a, b) == IF a <= b THEN a ELSE b

\* the program is in the main loop
Looping == pc \in {"loop", "sleep"}

\* C15 as stated: in the main loop sleep_time is between 1 and 10, and it is
\* max(1, m / 10) capped at 10 for the smallest idle time m that is not 0.
\* (it_root does not change in the loop, so neither does a sleep_time that is
\* this function of it.)
C15_IntervalBetweenOneAndTen ==
    Looping =>
        /\ sleep_time \in 1..10
        /\ NonZeroIdle # {} =>
              sleep_time = Smaller(10, Larger(1, Smallest(NonZeroIdle) \div 10))

\* C16 as stated: if every entry of the list has an idle time of 0, sleep_time
\* is 1.
C16_AllZeroSleepsOne ==
    (Looping /\ NonZeroIdle = {}) => sleep_time = 1

\* C16 as amended: if every entry of the list has an idle time of 0,
\* sleep_time is its cap, 10.
C16_AllZeroSleepsTen ==
    (Looping /\ NonZeroIdle = {}) => sleep_time = MAX_SLEEP_TIME

\* the default entry and a named one, both set to 0, and a pass was made
C16_Witness ==
    /\ Looping /\ NonZeroIdle = {} /\ Len(it_root) >= 2
    /\ obs.opened /\ sleep_time = 10

\* C17 as stated: the program never ends in a pass of the main loop.
C17_LoopNeverLeft == pc = "exit" => calls = <<>>

\* C17 as amended: the program ends in a pass of the main loop only when the
\* malloc of a new record fails (it then returns 2, with no record made and no
\* command sent); after every other pass - CreateFile failed, whatever the
\* error, power probe failed, not a fixed disk, counters not read, standby
\* command failed - the loop goes on.
C17_LoopLeftOnlyWithoutMemory ==
    /\ (pc = "exit" /\ calls # <<>>) =>
          /\ exit_code = 2
          /\ Called("malloc")
          /\ obs.read_ok /\ ~obs.had /\ ~Tracked(obs.name)
          /\ issued = <<>>
    /\ (calls # <<>> /\ ~Called("malloc")) => Looping /\ exit_code = 0
    /\ issued # <<>> => Looping

\* out of memory in a later round, after a failed read of the counters
C17_Witness ==
    /\ pc = "exit" /\ Called("malloc")
    /\ tried_diskperf /\ obs.now >= 1

\* C18: after -t there is exactly one spindown_disk call, for the name given;
\* the program has ended with status 0, has made no record, has made no pass
\* of the main loop (no counters read, no idle test, no standby command), and
\* no step follows the end of the program, so no later option is processed.
C18_DirectSpinDown ==
    /\ [](stops # <<>> =>
            /\ Len(stops) = 1
            /\ stops[1].name \in NameArgs
            /\ pc = "exit" /\ exit_code = 0
            /\ ds_root = <<>>
            /\ calls = <<>> /\ obs = NoObs /\ issued = <<>>
            /\ sleep_time = 0 /\ clock = 0)
    /\ [][pc # "exit"]_vars

\* -t after -a and -i, for a drive that exists
C18_Witness ==
    /\ stops # <<>> /\ stops[1].result = "success"
    /\ stops[1].name \in DriveNames
    /\ Len(it_root) = 2 /\ have_idle

\* C19: no step changes the idle_time of a record, and no step removes the
\* record.
C19_IdleTimeFixedAtCreation ==
    [][\A n \in DriveNames :
          Tracked(n) =>
              /\ Tracked(n)'
              /\ Stats(n)'.idle_time = Stats(n).idle_time]_vars

\* a record that went through a failed read, a spin-down and a spin-up
C19_Witness ==
    \E n \in DriveNames :
        /\ Tracked(n) /\ Stats(n).idle_time = 2
        /\ Stats(n).spindown > 0 /\ Stats(n).spinup > Stats(n).spindown
        /\ tried_diskperf

\* the records that carry the name n
Records(n) == { k \in 1..Len(ds_root) : ds_root[k].name = n }

\* C20: a record, once made, stays; no drive has two records; and only a pass
\* that opened the drive changes its record (a round that ends before the
\* drive's index leaves the record as it was).
C20_RecordsStay ==
    /\ [][\A n \in DriveNames :
            Tracked(n) =>
                /\ Tracked(n)'
                /\ ~(obs'.name = n /\ obs'.opened) => Stats(n)' = Stats(n)]_vars
    /\ [](\A n \in DriveNames : Cardinality(Records(n)) <= 1)
    /\ [](\A k \in 1..Len(ds_root) : ds_root[k].name \in DriveNames)

\* a stopped drive that could not be opened in a later round
C20_Witness ==
    \E n \in DriveNames :
        /\ Tracked(n) /\ Stats(n).spun_down /\ Stats(n).spindown > 0
        /\ obs.name = n /\ ~obs.opened /\ obs.now > Stats(n).spindown

\* the last pass read the counters of a drive without a record and made one
SawNew ==
    /\ obs.opened /\ obs.on /\ obs.fixed /\ obs.read_ok /\ ~obs.had
    /\ Looping

\* the first entry of it_root that is the default or named like n
FirstEntry(n) ==
    CHOOSE k \in 1..Len(it_root) :
        /\ it_root[k].name = <<>> \/ it_root[k].name = <<n>>
        /\ \A j \in 1..(k - 1) : it_root[j].name # <<>> /\ it_root[j].name # <<n>>

\* C21: a pass that reads the counters of a running fixed disk without a
\* record makes the record: reads and writes are the counters read, last_io
\* and spinup are now, spun_down is unset, spindown is 0 and idle_time is that
\* of the first matching entry; the pass sends no standby command, also when
\* now - last_io >= idle_time holds for the new record.
C21_FirstObservation ==
    SawNew =>
        /\ Tracked(obs.name)
        /\ Stats(obs.name) =
              [name |-> obs.name,
               idle_time |-> it_root[FirstEntry(obs.name)].idle_time,
               last_io |-> obs.now, spindown |-> 0, spinup |-> obs.now,
               spun_down |-> FALSE, reads |-> obs.reads, writes |-> obs.writes]
        /\ issued = <<>>
        /\ ~Called("ata_set_standby_mode")

\* a drive first seen with counters that are not 0 and an idle time the new
\* record already meets (now - last_io = 0 >= idle_time)
C21_Witness ==
    /\ SawNew
    /\ obs.reads > 0 /\ obs.writes > 0
    /\ Stats(obs.name).idle_time # 0
    /\ IdleExpired(Stats(obs.name), obs.now)

\* C23: spun_down is cleared only by a pass that reads changed counters.  A
\* pass that finds a running drive with a record off sets spun_down, sends no
\* command and leaves spindown alone; a later pass that finds the drive on
\* with the stored counters leaves the record as it is (spun_down stays set)
\* and sends no command, however long the drive has been idle.
C23_SpunDownUntilActivity ==
    /\ [](/\ (SawAsleep /\ obs.had /\ ~obs.pre.spun_down) =>
               /\ issued = <<>>
               /\ Stats(obs.name).spun_down
               /\ Stats(obs.name).spindown = obs.pre.spindown
          /\ (SawUnchanged /\ obs.pre.spun_down) =>
               /\ issued = <<>>
               /\ Stats(obs.name) = obs.pre)
    /\ [][\A n \in DriveNames :
             (Tracked(n) /\ Stats(n).spun_down /\ ~(Tracked(n)' /\ Stats(n)'.spun_down))
                 => (SawChanged' /\ obs'.name = n)]_vars

\* a drive marked as spun down by the power probe alone, never sent a command,
\* is found on again with the stored counters and its idle time used up
C23_Witness ==
    /\ SawUnchanged
    /\ obs.pre.spun_down
    /\ hist[obs.name].cmds = 0
    /\ obs.pre.spindown = 0
    /\ obs.pre.idle_time > 0
    /\ IdleExpired(obs.pre, obs.now)

\* C22 as stated: a drive with idle_time = T > 0 that every round since its
\* last_io found on, fixed, readable and with the stored counters is sent the
\* standby command at a time now with now - last_io < T + max(1, T / 10).
C22_BoundedOvershoot ==
    (/\ issued = <<obs.name>>
     /\ obs.pre.idle_time > 0
     /\ hist[obs.name].clean) =>
        obs.now - obs.pre.last_io <
            obs.pre.idle_time + Larger(1, obs.pre.idle_time \div 10)

\* the record of drive n, all zero if there is none
Record(n) == IF Tracked(n) THEN Stats(n) ELSE ZeroStats

\* C25: a round calls CreateFile for the indexes 0, 1, 2, ... in this order
\* and ends at the first index that cannot be opened (no file or no access):
\* no higher index is tried in that round, and only a pass that opened a drive
\* changes the drive's record or sends it the standby command, so a drive
\* behind an index that does not open keeps its record and gets no command.
C25_RoundEndsAtFirstGap ==
    /\ [](/\ \A k \in 1..Len(tried) : tried[k].index = k - 1
          /\ \A k \in 1..(Len(tried) - 1) : tried[k].opened
          /\ (tried # <<>> /\ ~tried[Len(tried)].opened) => pc = "sleep"
          /\ pc = "loop" => i = Len(tried)
          /\ pc = "sleep" => issued = <<>>)
    /\ [][\A n \in DriveNames :
             (Record(n)' # Record(n) \/ issued' = <<n>>) =>
                 /\ pc = "loop"
                 /\ n = DriveName(i)
                 /\ tried' = Append(tried, [index |-> i, opened |-> TRUE])]_vars

\* the round ended at index 0 while the drive at index 1 has a record, runs
\* and has used up its idle time
C25_Witness ==
    /\ ndrives = 2
    /\ pc = "sleep"
    /\ tried = <<[index |-> 0, opened |-> FALSE]>>
    /\ Tracked(DriveName(1))
    /\ Stats(DriveName(1)).idle_time > 0
    /\ StandbyDue(Stats(DriveName(1)), clock)
    /\ hist[DriveName(1)].cmds = 0

\* the CloseHandle calls of the last pass on the handle the pass opened
Closes == Cardinality({ k \in 1..Len(calls) : calls[k] = "CloseHandle" })

\* C24 as stated: a pass that opened the drive closes that handle exactly once,
\* and neither it nor ata_check_power_mode nor ata_set_standby_mode leaves a
\* handle open, so no handle is open when the next pass or the sleep begins.
C24_HandleBalance ==
    /\ leaked = 0
    /\ obs.opened => Closes = 1

====
